---- MODULE Spec2Model ----
(***************************************************************************)
(* Trading Room Game (src/app.py): per-session round state, round scoring, *)
(* the shared submission log (submissions.csv) and the leaderboard.        *)
(*                                                                         *)
(* Every browser session runs the script in its own thread; the sessions   *)
(* share nothing but the submission log.  One user interaction is one run  *)
(* of the script; the run of a submit is split where it touches the shared *)
(* file: the session part together with lines 37-47 of save_submission,    *)
(* then the read of the file (line 49), then the rewrite (lines 53-54).    *)
(*                                                                         *)
(* src/app.py has one round pointer that only ever holds 0.  The round     *)
(* navigation and the full reset of the specification's RoundController    *)
(* (advance, retreat, resetAll) are not in src/app.py; they are modelled   *)
(* from the specification and are steps of SpecNav only, never of Spec.    *)
(*                                                                         *)
(* Returns and scores are integers.  Participant names are names the CSV   *)
(* store hands back as the same text it was given.                         *)
(***************************************************************************)
EXTENDS Integers, Sequences, FiniteSets, TLC

\* ------------------------------------------------------------------ bounds
\* MaxSteps: the number of user interactions, file steps and clock ticks of
\* one run of the game that are followed; MaxClock: the last second of the
\* wall clock; MaxRet: the largest return of a row in the scoring check;
\* MaxFrame: the longest frame of records in the leaderboard check.
MaxSteps == 10
MaxClock == 1
MaxRet == 1
MaxFrame == 2

\* --------------------------------------------------------------- constants
STOCKS == <<"CEN", "FBU", "AIR", "FPH", "WHS">>

StockSet == {STOCKS[i] : i \in 1..Len(STOCKS)}

ActionOptions == <<"Buy", "Sell", "Hold">>

ActionSet == {ActionOptions[i] : i \in 1..Len(ActionOptions)}

\* The sessions (browser tabs) that are open, and the names typed into the
\* participant box; NameOrder is the text order of the names.
Sessions == {1, 2}

NameOrder == <<"Team A", "Team B">>

Names == {NameOrder[i] : i \in 1..Len(NameOrder)}

\* The tickers whose selectbox the modelled users touch.
SelectableStocks == {"CEN"}

\* load_config: the rows of game_config.csv sorted by round.
cfg ==
  << [round |-> 1, headline |-> "A",
      ret |-> [t \in StockSet |->
                 CASE t = "CEN" -> 2 [] t = "FBU" -> -1 [] t = "AIR" -> 1
                   [] t = "FPH" -> 1 [] OTHER -> -1]],
     [round |-> 2, headline |-> "B",
      ret |-> [t \in StockSet |->
                 CASE t = "CEN" -> -1 [] t = "FBU" -> 3 [] OTHER -> 0]] >>

RoundCount == Len(cfg)

VARIABLES
  participant,    \* st.session_state.participant, per session
  round_idx,      \* st.session_state.round_idx
  choices,        \* st.session_state.choices: round index -> ticker -> action
  scores,         \* st.session_state.scores
  locked_rounds,  \* st.session_state.locked_rounds
  widget,         \* st.session_state[f"{r_idx}_{s}"]: the selectboxes
  pc,             \* where the session's script run stands
  data,           \* save_submission's local `data`
  df,             \* save_submission's local `df`
  fileExists,     \* submissions.csv exists
  rows,           \* the records of submissions.csv
  now,            \* datetime.now(), in seconds
  steps,          \* the steps taken so far
  score_rounds,   \* history: the round index each entry of scores was recorded for
  was_reset,      \* history: the session has pressed "Reset current player"
  was_renamed,    \* history: the session has changed a name it had entered
  touched,        \* history: a selectbox was changed since the start or the last reset
  was_cleared,    \* history: submissions.csv has been deleted
  interleaved,    \* history: a rewrite has followed a read the file had left behind
  row,            \* input of the scoring check: a config row
  chosen,         \* input of the scoring check: a choices dict
  sub,            \* input of the leaderboard check: a frame of records
  result          \* output of the function under check

vars == <<participant, round_idx, choices, scores, locked_rounds, widget,
          pc, data, df, fileExists, rows, now, steps, score_rounds, was_reset,
          was_renamed, touched, was_cleared, interleaved,
          row, chosen, sub, result>>

sessionVars == <<participant, round_idx, choices, scores, locked_rounds, widget,
                 score_rounds, was_reset, was_renamed, touched>>

historyVars == <<was_cleared, interleaved>>

appendVars == <<pc, data, df>>

storeVars == <<fileExists, rows>>

pureVars == <<row, chosen, sub, result>>

gameVars == <<sessionVars, appendVars, storeVars, historyVars, now, steps>>

\* ----------------------------------------------------------------- helpers
EmptyDict == <<>>

NoData == <<>>

AllHold == [t \in StockSet |-> "Hold"]

\* dict.get(key, default)
Get(d, k, default) == IF k \in DOMAIN d THEN d[k] ELSE default

RECURSIVE SumSeq(_)
SumSeq(q) == IF q = <<>> THEN 0 ELSE q[1] + SumSeq(Tail(q))

SellAlsoPlus(action) ==
  CASE action = "Buy" -> 1 [] action = "Sell" -> 1 [] action = "Hold" -> 0

action_to_sign(action) ==
  CASE action = "Buy" -> 1 [] action = "Sell" -> -1 [] action = "Hold" -> 0

\* sum(action_to_sign(choices.get(s, "Hold")) * float(row[s]) for s in STOCKS)
calc_round_score(c, r_idx, ch) ==
  LET r == c[r_idx + 1]
  IN SumSeq([i \in 1..Len(STOCKS) |->
               action_to_sign(Get(ch, STOCKS[i], "Hold")) * r.ret[STOCKS[i]]])

\* The selectbox default: st.session_state.choices.get(r_idx,{}).get(s,"Hold")
DefaultChoice(ch, r_idx) ==
  [t \in StockSet |-> Get(Get(ch, r_idx, EmptyDict), t, "Hold")]

MkDataLastRow(c, ts, p, r_idx, score, ch) ==
  [timestamp |-> ts,
   participant |-> p,
   round |-> c[r_idx + 1].round,
   headline |-> c[r_idx + 1].headline,
   choice |-> [t \in StockSet |-> Get(ch, t, "Hold")],
   return |-> [t \in StockSet |-> c[Len(c)].ret[t]],
   round_score |-> score]

\* The dict built in save_submission (lines 37-47); cum_score_after is added
\* to the frame at line 53.
MkData(c, ts, p, r_idx, score, ch) ==
  [timestamp |-> ts,
   participant |-> p,
   round |-> c[r_idx + 1].round,
   headline |-> c[r_idx + 1].headline,
   choice |-> [t \in StockSet |-> Get(ch, t, "Hold")],
   return |-> [t \in StockSet |-> c[r_idx + 1].ret[t]],
   round_score |-> score]

\* A row of the frame with its cum_score_after column.
MkRow(d, cum) ==
  [timestamp |-> d.timestamp,
   participant |-> d.participant,
   round |-> d.round,
   headline |-> d.headline,
   choice |-> d.choice,
   return |-> d.return,
   round_score |-> d.round_score,
   cum_score_after |-> cum]

RECURSIVE GroupSum(_, _, _)
\* The sum of round_score over the first n rows of f that belong to p.
GroupSum(f, n, p) ==
  IF n = 0 THEN 0
  ELSE GroupSum(f, n - 1, p)
       + (IF f[n].participant = p THEN f[n].round_score ELSE 0)

RECURSIVE PlainSum(_, _)
PlainSum(f, n) == IF n = 0 THEN 0 ELSE PlainSum(f, n - 1) + f[n].round_score

UngroupedCumScore(f) ==
  [i \in 1..Len(f) |-> MkRow(f[i], PlainSum(f, i))]

GroupTotalScore(f) ==
  [i \in 1..Len(f) |-> MkRow(f[i], GroupSum(f, Len(f), f[i].participant))]

\* df["cum_score_after"] = df.groupby("participant")["round_score"].cumsum()
WithCumScore(f) ==
  [i \in 1..Len(f) |-> MkRow(f[i], GroupSum(f, i, f[i].participant))]

ReadFrameGivesUp(exists, rws, d) ==
  IF exists THEN Append(rws, d) ELSE <<>>

\* save_submission lines 48-52: the file's rows with the new row added, or
\* the new row alone when the file cannot be read.
ReadFrame(exists, rws, d) == IF exists THEN Append(rws, d) ELSE <<d>>

\* load_submissions
load_submissions == IF ~fileExists THEN <<>> ELSE rows

\* The place of a name in the text order of the names.
Rank(p) == CHOOSE i \in 1..Len(NameOrder) : NameOrder[i] = p

\* The pairs <<j, i>> of places of f whose rows a sort key puts in order.
Pairs(f) == (1..Len(f)) \X (1..Len(f))

\* A stable sort: with before the pairs <<j, i>> such that f[j] sorts ahead
\* of f[i], f[i] goes behind every row that sorts ahead of it and behind the
\* earlier ones among its equals.
StableSort(f, before) ==
  LET pos(i) == 1 + Cardinality({j \in 1..Len(f) :
                    <<j, i>> \in before \/ (<<i, j>> \notin before /\ j < i)})
  IN [k \in 1..Len(f) |-> f[CHOOSE i \in 1..Len(f) : pos(i) = k]]

\* sort_values(["participant","timestamp"])
ByParticipantTimestamp(a, b) ==
  \/ Rank(a.participant) < Rank(b.participant)
  \/ a.participant = b.participant /\ a.timestamp < b.timestamp

CumScoreAscending(a, b) == a.cum_score < b.cum_score

\* sort_values("cum_score", ascending=False)
ByCumScoreDescending(a, b) == a.cum_score > b.cum_score

RECURSIVE HeadOne(_, _)
HeadOne(f, i) ==
  IF i > Len(f) THEN <<>>
  ELSE (IF \E j \in 1..(i - 1) : f[j].participant = f[i].participant
        THEN <<>> ELSE <<f[i]>>) \o HeadOne(f, i + 1)

RECURSIVE TailOne(_, _)
\* groupby("participant").tail(1), from row i on: the last row of each group
TailOne(f, i) ==
  IF i > Len(f) THEN <<>>
  ELSE (IF \E j \in (i + 1)..Len(f) : f[j].participant = f[i].participant
        THEN <<>> ELSE <<f[i]>>) \o TailOne(f, i + 1)

RECURSIVE Merge(_, _, _, _)
\* left.merge(right, on="participant"), from left row i and right row j on
Merge(left, right, i, j) ==
  IF i > Len(left) THEN <<>>
  ELSE IF j > Len(right) THEN Merge(left, right, i + 1, 1)
  ELSE (IF left[i].participant = right[j].participant
        THEN <<[participant |-> left[i].participant,
                latest_round |-> left[i].latest_round,
                cum_score |-> left[i].cum_score,
                latest_score |-> right[j].latest_score]>>
        ELSE <<>>) \o Merge(left, right, i, j + 1)

compute_leaderboard(frame) ==
  IF frame = <<>> THEN <<>>
  ELSE LET sorted == StableSort(frame, {q \in Pairs(frame) :
                        ByParticipantTimestamp(frame[q[1]], frame[q[2]])})
           latest == TailOne(sorted, 1)
           board == [i \in 1..Len(latest) |->
                       [participant |-> latest[i].participant,
                        latest_round |-> latest[i].round,
                        cum_score |-> latest[i].cum_score_after]]
           last_scores == [i \in 1..Len(latest) |->
                             [participant |-> latest[i].participant,
                              latest_score |-> latest[i].round_score]]
           merged == Merge(board, last_scores, 1, 1)
       IN StableSort(merged, {q \in Pairs(merged) :
                        ByCumScoreDescending(merged[q[1]], merged[q[2]])})

\* ------------------------------------------------------------------- state
TypeOK ==
  /\ participant \in [Sessions -> Names \cup {""}]
  /\ round_idx \in [Sessions -> 0..(RoundCount - 1)]
  /\ \A s \in Sessions : DOMAIN choices[s] \subseteq 0..(RoundCount - 1)
  /\ \A s \in Sessions : scores[s] \in Seq(Int)
  /\ locked_rounds \in [Sessions -> SUBSET (0..(RoundCount - 1))]
  /\ widget \in [Sessions -> [StockSet -> ActionSet]]
  /\ pc \in [Sessions -> {"idle", "read", "write"}]
  /\ fileExists \in BOOLEAN
  /\ now \in 0..MaxClock
  /\ steps \in 0..MaxSteps

\* init_state in every session; there is no submissions.csv yet.
GameInit ==
  /\ participant = [s \in Sessions |-> ""]
  /\ round_idx = [s \in Sessions |-> 0]
  /\ choices = [s \in Sessions |-> EmptyDict]
  /\ scores = [s \in Sessions |-> <<>>]
  /\ locked_rounds = [s \in Sessions |-> {}]
  /\ widget = [s \in Sessions |-> AllHold]
  /\ pc = [s \in Sessions |-> "idle"]
  /\ data = [s \in Sessions |-> NoData]
  /\ df = [s \in Sessions |-> <<>>]
  /\ fileExists = FALSE
  /\ rows = <<>>
  /\ now = 0
  /\ steps = 0
  /\ score_rounds = [s \in Sessions |-> <<>>]
  /\ was_reset = [s \in Sessions |-> FALSE]
  /\ was_renamed = [s \in Sessions |-> FALSE]
  /\ touched = [s \in Sessions |-> FALSE]
  /\ was_cleared = FALSE
  /\ interleaved = FALSE

Init ==
  /\ GameInit
  /\ row = cfg[1]
  /\ chosen = EmptyDict
  /\ sub = <<>>
  /\ result = <<>>

\* ----------------------------------------------------------------- actions
\* Every step of the game uses one unit of the step budget.
Budget == steps < MaxSteps /\ steps' = steps + 1

\* The text input keyed "participant" (line 102).  With an empty name the
\* run stops at line 106 before the selectboxes are drawn, so their state is
\* dropped; they are drawn again from their defaults (line 115).
SetParticipant(s, p) ==
  /\ Budget
  /\ pc[s] = "idle"
  /\ p # participant[s]
  /\ participant' = [participant EXCEPT ![s] = p]
  /\ widget' = [widget EXCEPT ![s] =
                  IF p = "" THEN AllHold
                  ELSE IF participant[s] = ""
                       THEN DefaultChoice(choices[s], round_idx[s])
                       ELSE @]
  /\ was_renamed' = [was_renamed EXCEPT ![s] = @ \/ participant[s] # ""]
  /\ UNCHANGED <<round_idx, choices, scores, locked_rounds, score_rounds, was_reset,
                 touched>>
  /\ UNCHANGED <<appendVars, storeVars, historyVars, now, pureVars>>

\* A selectbox (lines 114-118): drawn only past line 106, disabled when the
\* round is locked.
SelectChoice(s, t, a) ==
  /\ Budget
  /\ pc[s] = "idle"
  /\ participant[s] # ""
  /\ round_idx[s] \notin locked_rounds[s]
  /\ a # widget[s][t]
  /\ widget' = [widget EXCEPT ![s][t] = a]
  /\ touched' = [touched EXCEPT ![s] = TRUE]
  /\ UNCHANGED <<participant, round_idx, choices, scores, locked_rounds,
                 score_rounds, was_reset, was_renamed>>
  /\ UNCHANGED <<appendVars, storeVars, historyVars, now, pureVars>>

ResetToSecondRound(k) ==
  CASE k = "choices" -> EmptyDict
    [] k = "scores" -> <<>>
    [] k = "round_idx" -> 1
    [] OTHER -> {}

ResetLeavesScore(k) ==
  CASE k = "choices" -> EmptyDict
    [] k = "scores" -> <<0>>
    [] k = "round_idx" -> 0
    [] OTHER -> {}

ResetPastLastRound(k) ==
  CASE k = "choices" -> EmptyDict
    [] k = "scores" -> <<>>
    [] k = "round_idx" -> RoundCount
    [] OTHER -> {}

\* Line 104: {} if k=="choices" else [] if k=="scores" else 0 if
\* k=="round_idx" else set()
ResetValue(k) ==
  CASE k = "choices" -> EmptyDict
    [] k = "scores" -> <<>>
    [] k = "round_idx" -> 0
    [] OTHER -> {}

ResetPlayerDropsLog(s, keep) ==
  /\ Budget
  /\ pc[s] = "idle"
  /\ round_idx' = [round_idx EXCEPT ![s] = ResetValue("round_idx")]
  /\ choices' = [choices EXCEPT ![s] = ResetValue("choices")]
  /\ scores' = [scores EXCEPT ![s] = ResetValue("scores")]
  /\ locked_rounds' = [locked_rounds EXCEPT ![s] = ResetValue("locked_rounds")]
  /\ widget' = [widget EXCEPT ![s] = IF participant[s] = "" \/ ~keep THEN AllHold ELSE @]
  /\ score_rounds' = [score_rounds EXCEPT ![s] = <<>>]
  /\ was_reset' = [was_reset EXCEPT ![s] = TRUE]
  /\ touched' = [touched EXCEPT ![s] = FALSE]
  /\ fileExists' = FALSE
  /\ rows' = <<>>
  /\ UNCHANGED <<participant, was_renamed>>
  /\ UNCHANGED <<appendVars, historyVars, now, pureVars>>

\* "Reset current player" (lines 103-104), in the sidebar and so ahead of
\* line 106.  The reset makes the selectboxes' index argument Hold again.
\* When the reset is pressed in the page the submitting run has drawn, the
\* selectboxes have the arguments of that run (index Hold, enabled) and keep
\* their values.  After a run in between, which drew them with the submitted
\* choice as index, whether a selectbox keeps its value depends on the
\* Streamlit release.
ResetPlayer(s, keep) ==
  /\ Budget
  /\ pc[s] = "idle"
  /\ round_idx' = [round_idx EXCEPT ![s] = ResetValue("round_idx")]
  /\ choices' = [choices EXCEPT ![s] = ResetValue("choices")]
  /\ scores' = [scores EXCEPT ![s] = ResetValue("scores")]
  /\ locked_rounds' = [locked_rounds EXCEPT ![s] = ResetValue("locked_rounds")]
  /\ widget' = [widget EXCEPT ![s] =
                  IF participant[s] = "" THEN AllHold
                  ELSE IF keep THEN @
                  ELSE [t \in StockSet |->
                          IF DefaultChoice(choices[s], round_idx[s])[t] = "Hold"
                          THEN @[t] ELSE "Hold"]]
  /\ score_rounds' = [score_rounds EXCEPT ![s] = <<>>]
  /\ was_reset' = [was_reset EXCEPT ![s] = TRUE]
  /\ touched' = [touched EXCEPT ![s] = FALSE]
  /\ UNCHANGED <<participant, was_renamed>>
  /\ UNCHANGED <<appendVars, storeVars, historyVars, now, pureVars>>

NoParticipantGate(s) == TRUE

\* Line 106: if not st.session_state.participant: st.stop()
ParticipantGate(s) == participant[s] # ""

LockedIgnored(s) == FALSE

LockedAlways(s) == TRUE

\* Line 112: locked = r_idx in st.session_state.locked_rounds
Locked(s) == round_idx[s] \in locked_rounds[s]

LockNothing(locked, r_idx) == locked

LockOnlyThis(locked, r_idx) == {r_idx}

\* Line 124: st.session_state.locked_rounds.add(r_idx)
LockRound(locked, r_idx) == locked \cup {r_idx}

\* "Submit choices" (lines 120-125) up to the read of the file: the session
\* part and lines 37-47 of save_submission.
Submit(s) ==
  /\ Budget
  /\ pc[s] = "idle"
  /\ ParticipantGate(s)
  /\ ~Locked(s)
  /\ LET r_idx == round_idx[s]
         ch == [t \in StockSet |-> widget[s][t]]
         score == calc_round_score(cfg, r_idx, ch)
     IN /\ choices' = [choices EXCEPT ![s] = (r_idx :> ch) @@ @]
        /\ scores' = [scores EXCEPT ![s] = Append(@, score)]
        /\ score_rounds' = [score_rounds EXCEPT ![s] = Append(@, r_idx)]
        /\ locked_rounds' = [locked_rounds EXCEPT ![s] = LockRound(@, r_idx)]
        /\ data' = [data EXCEPT ![s] =
                      MkData(cfg, now, participant[s], r_idx, score, ch)]
  /\ pc' = [pc EXCEPT ![s] = "read"]
  /\ UNCHANGED <<participant, round_idx, widget, was_reset, was_renamed, touched, df,
                 storeVars, historyVars, now, pureVars>>

\* save_submission lines 48-52: read the file and add the row.
ReadLog(s) ==
  /\ Budget
  /\ pc[s] = "read"
  /\ df' = [df EXCEPT ![s] = ReadFrame(fileExists, rows, data[s])]
  /\ pc' = [pc EXCEPT ![s] = "write"]
  /\ UNCHANGED <<sessionVars, data, storeVars, historyVars, now, pureVars>>

WriteLogReadsAgain(s) ==
  /\ Budget
  /\ pc[s] = "write"
  /\ rows' = WithCumScore(ReadFrame(fileExists, rows, data[s]))
  /\ fileExists' = TRUE
  /\ pc' = [pc EXCEPT ![s] = "idle"]
  /\ data' = [data EXCEPT ![s] = NoData]
  /\ df' = [df EXCEPT ![s] = <<>>]
  /\ interleaved' = (interleaved \/ df[s] # ReadFrame(fileExists, rows, data[s]))
  /\ UNCHANGED <<sessionVars, was_cleared, now, pureVars>>

\* save_submission lines 53-54: recompute the cumulative scores and write
\* the whole frame back.
WriteLog(s) ==
  /\ Budget
  /\ pc[s] = "write"
  /\ rows' = WithCumScore(df[s])
  /\ fileExists' = TRUE
  /\ pc' = [pc EXCEPT ![s] = "idle"]
  /\ data' = [data EXCEPT ![s] = NoData]
  /\ df' = [df EXCEPT ![s] = <<>>]
  /\ interleaved' = (interleaved \/ df[s] # ReadFrame(fileExists, rows, data[s]))
  /\ UNCHANGED <<sessionVars, was_cleared, now, pureVars>>

ClearLogResetsPlayer(s) ==
  /\ Budget
  /\ pc[s] = "idle"
  /\ ParticipantGate(s)
  /\ fileExists' = FALSE
  /\ rows' = <<>>
  /\ was_cleared' = (was_cleared \/ fileExists)
  /\ choices' = [choices EXCEPT ![s] = ResetValue("choices")]
  /\ scores' = [scores EXCEPT ![s] = ResetValue("scores")]
  /\ locked_rounds' = [locked_rounds EXCEPT ![s] = ResetValue("locked_rounds")]
  /\ score_rounds' = [score_rounds EXCEPT ![s] = <<>>]
  /\ UNCHANGED <<participant, round_idx, widget, was_reset, was_renamed, touched>>
  /\ UNCHANGED <<appendVars, interleaved, now, pureVars>>

\* "Clear submissions.csv" (lines 148-149): unlink(missing_ok=True).  The
\* Admin tab is drawn only past line 106.
ClearLog(s) ==
  /\ Budget
  /\ pc[s] = "idle"
  /\ ParticipantGate(s)
  /\ fileExists' = FALSE
  /\ rows' = <<>>
  /\ was_cleared' = (was_cleared \/ fileExists)
  /\ UNCHANGED <<sessionVars, appendVars, interleaved, now, pureVars>>

\* The wall clock behind datetime.now() (line 38).
Tick ==
  /\ Budget
  /\ now < MaxClock
  /\ now' = now + 1
  /\ UNCHANGED <<sessionVars, appendVars, storeVars, historyVars, pureVars>>

Next ==
  \/ \E s \in Sessions, p \in Names \cup {""} : SetParticipant(s, p)
  \/ \E s \in Sessions, t \in SelectableStocks, a \in ActionSet : SelectChoice(s, t, a)
  \/ \E s \in Sessions, keep \in BOOLEAN : ResetPlayer(s, keep)
  \/ \E s \in Sessions : Submit(s)
  \/ \E s \in Sessions : ReadLog(s)
  \/ \E s \in Sessions : WriteLog(s)
  \/ \E s \in Sessions : ClearLog(s)
  \/ Tick

Spec == Init /\ [][Next]_vars

\* --------------------------------------------------------------- navigation
\* The round pointer of src/app.py only ever holds 0 (lines 24 and 104).
\* The navigation and the full reset below are the operations advance,
\* retreat and resetAll of the specification's RoundController.  The
\* selectboxes are keyed by the round index (line 117), so those of another
\* round are drawn from that round's defaults (line 115).

\* advance(): allowed only if the current round is Locked and is not the
\* last round.
Advance(s) ==
  /\ Budget
  /\ pc[s] = "idle"
  /\ ParticipantGate(s)
  /\ Locked(s)
  /\ round_idx[s] < RoundCount - 1
  /\ round_idx' = [round_idx EXCEPT ![s] = @ + 1]
  /\ widget' = [widget EXCEPT ![s] = DefaultChoice(choices[s], round_idx[s] + 1)]
  /\ UNCHANGED <<participant, choices, scores, locked_rounds, score_rounds,
                 was_reset, was_renamed, touched>>
  /\ UNCHANGED <<appendVars, storeVars, historyVars, now, pureVars>>

\* retreat(): allowed only if the pointer is above 0; a view change.
Retreat(s) ==
  /\ Budget
  /\ pc[s] = "idle"
  /\ ParticipantGate(s)
  /\ round_idx[s] > 0
  /\ round_idx' = [round_idx EXCEPT ![s] = @ - 1]
  /\ widget' = [widget EXCEPT ![s] = DefaultChoice(choices[s], round_idx[s] - 1)]
  /\ UNCHANGED <<participant, choices, scores, locked_rounds, score_rounds,
                 was_reset, was_renamed, touched>>
  /\ UNCHANGED <<appendVars, storeVars, historyVars, now, pureVars>>

\* resetAll(): clears all session fields including participant.
ResetAll(s) ==
  /\ Budget
  /\ pc[s] = "idle"
  /\ participant' = [participant EXCEPT ![s] = ""]
  /\ round_idx' = [round_idx EXCEPT ![s] = ResetValue("round_idx")]
  /\ choices' = [choices EXCEPT ![s] = ResetValue("choices")]
  /\ scores' = [scores EXCEPT ![s] = ResetValue("scores")]
  /\ locked_rounds' = [locked_rounds EXCEPT ![s] = ResetValue("locked_rounds")]
  /\ widget' = [widget EXCEPT ![s] = AllHold]
  /\ score_rounds' = [score_rounds EXCEPT ![s] = <<>>]
  /\ was_reset' = [was_reset EXCEPT ![s] = TRUE]
  /\ touched' = [touched EXCEPT ![s] = FALSE]
  /\ was_renamed' = [was_renamed EXCEPT ![s] = @ \/ participant[s] # ""]
  /\ UNCHANGED <<appendVars, storeVars, historyVars, now, pureVars>>

NextNav ==
  \/ Next
  \/ \E s \in Sessions : Advance(s)
  \/ \E s \in Sessions : Retreat(s)
  \/ \E s \in Sessions : ResetAll(s)

SpecNav == Init /\ [][NextNav]_vars

\* ------------------------------------------------- the scoring function
\* Rows with returns in -MaxRet..MaxRet and choices dicts, complete or with
\* tickers missing.
ScoreRows ==
  {[round |-> 1, headline |-> "A", ret |-> f] :
     f \in [StockSet -> (0 - MaxRet)..MaxRet]}

ChoiceDomains == {StockSet, StockSet \ {STOCKS[5]}, {STOCKS[1]}, {}}

ChoiceDicts == UNION {[D -> ActionSet] : D \in ChoiceDomains}

InitScore ==
  /\ GameInit
  /\ row \in ScoreRows
  /\ chosen \in ChoiceDicts
  /\ sub = <<>>
  /\ result = <<>>

\* calc_round_score on a one-row config
ApplyScore ==
  /\ result = <<>>
  /\ result' = <<calc_round_score(<<row>>, 0, chosen)>>
  /\ UNCHANGED <<gameVars, row, chosen, sub>>

NextScore == ApplyScore

SpecScore == InitScore /\ [][NextScore]_vars

\* ----------------------------------------------------------- the leaderboard
\* Frames of at most MaxFrame records of any participants, times, scores and
\* stored cumulative scores.
BoardRecords ==
  {MkRow(MkData(cfg, ts, p, 0, sc, AllHold), cum) :
     ts \in 0..MaxClock, p \in Names, sc \in 0..1, cum \in (0 - MaxRet)..MaxRet}

Frames == UNION {[1..n -> BoardRecords] : n \in 0..MaxFrame}

InitBoard ==
  /\ GameInit
  /\ row = cfg[1]
  /\ chosen = EmptyDict
  /\ sub \in Frames
  /\ result = <<>>

ApplyBoard ==
  /\ result = <<>>
  /\ result' = <<compute_leaderboard(sub)>>
  /\ UNCHANGED <<gameVars, row, chosen, sub>>

NextBoard == ApplyBoard

SpecBoard == InitBoard /\ [][NextBoard]_vars

\* ------------------------------------------------------------------ claims
\* How often round r occurs in a sequence of round indices.
Count(q, r) == Cardinality({i \in 1..Len(q) : q[i] = r})

RoundIndexes == 0..(RoundCount - 1)

\* C1: in every session a round index is in locked_rounds exactly when one
\* score has been recorded for it, and there are as many recorded scores as
\* locked rounds.
C1_LockedIffOneScore ==
  \A s \in Sessions :
    /\ Len(score_rounds[s]) = Len(scores[s])
    /\ Len(scores[s]) = Cardinality(locked_rounds[s])
    /\ \A r \in RoundIndexes :
         /\ r \in locked_rounds[s] <=> Count(score_rounds[s], r) = 1
         /\ r \notin locked_rounds[s] <=> Count(score_rounds[s], r) = 0

\* A session that was reset and has submitted its round again.
C1_Witness ==
  \E s \in Sessions :
    /\ was_reset[s]
    /\ pc[s] = "idle"
    /\ locked_rounds[s] = {0}
    /\ Len(scores[s]) = 1

\* C2: while the current round of a session is locked, no step submits it
\* again: no append is begun, no score is added, and choices and
\* locked_rounds stay as they are (or are emptied by a reset).
C2_LockedSubmitRejected ==
  [][\A s \in Sessions :
       (pc[s] = "idle" /\ round_idx[s] \in locked_rounds[s])
       => /\ pc'[s] = "idle"
          /\ Len(scores'[s]) <= Len(scores[s])
          /\ choices'[s] \in {choices[s], EmptyDict}
          /\ locked_rounds'[s] \in {locked_rounds[s], {}}]_vars

\* A session with a name whose round is locked and written to the log.
C2_Witness ==
  \E s \in Sessions :
    /\ pc[s] = "idle"
    /\ participant[s] # ""
    /\ round_idx[s] \in locked_rounds[s]
    /\ \E i \in 1..Len(rows) : rows[i].participant = participant[s]

\* C3, as claimed: the log holds at most one row for each (participant,
\* round) pair.
C3_OneRowPerParticipantRound ==
  \A i, j \in 1..Len(rows) :
    (rows[i].participant = rows[j].participant /\ rows[i].round = rows[j].round)
    => i = j

\* C3, amended: between two resets a session submits each round at most
\* once, and the append it has in flight is the one of its latest score.
C3_OneSubmitPerRoundBetweenResets ==
  \A s \in Sessions :
    /\ \A i, j \in 1..Len(score_rounds[s]) :
         score_rounds[s][i] = score_rounds[s][j] => i = j
    /\ pc[s] # "idle" =>
         /\ score_rounds[s] # <<>>
         /\ data[s].round = cfg[score_rounds[s][Len(score_rounds[s])] + 1].round
         /\ data[s].round_score = scores[s][Len(scores[s])]

\* A log with two rows of one participant for one round, and a session whose
\* round is locked after a reset.
C3_Witness ==
  /\ \E i, j \in 1..Len(rows) :
       /\ i < j
       /\ rows[i].participant = rows[j].participant
       /\ rows[i].round = rows[j].round
  /\ \E s \in Sessions : was_reset[s] /\ score_rounds[s] = <<0>>

\* An append of session s that read the file as it now is.
CleanAppend(s) ==
  /\ pc[s] = "write"
  /\ pc'[s] = "idle"
  /\ fileExists
  /\ df[s] = Append(rows, data[s])

OwnScores(p, n) ==
  LET own == SelectSeq(SubSeq(rows, 1, n), LAMBDA r : r.participant = p)
  IN [k \in 1..Len(own) |-> own[k].round_score]

RecordsOf(frame, p) == {i \in 1..Len(frame) : frame[i].participant = p}

LastRecordOf(frame, p) ==
  frame[CHOOSE i \in RecordsOf(frame, p) :
          \A j \in RecordsOf(frame, p) :
            \/ frame[j].timestamp < frame[i].timestamp
            \/ frame[j].timestamp = frame[i].timestamp /\ j <= i]

TotalOf(frame, p) == GroupSum(frame, Len(frame), p)

\* C6: the leaderboard entry of every participant in the log is taken from
\* the participant's latest record, and its cum_score is the participant's
\* total, the sum of round_score over all the participant's records.
C6_BoardShowsTotal ==
  LET frame == load_submissions
      board == compute_leaderboard(frame)
  IN \A i \in 1..Len(frame) :
       \E k \in 1..Len(board) :
         LET p == frame[i].participant
             last == LastRecordOf(frame, p)
         IN /\ board[k].participant = p
            /\ board[k].latest_round = last.round
            /\ board[k].latest_score = last.round_score
            /\ board[k].cum_score = last.cum_score_after
            /\ board[k].cum_score = TotalOf(frame, p)

\* C7: the leaderboard of a frame has one entry for every participant with a
\* record, none for any other, in the order of non-increasing cum_score; the
\* leaderboard of the empty frame is empty.
C7_BoardEntriesSorted ==
  result # <<>> =>
    LET board == result[1]
    IN /\ {board[k].participant : k \in 1..Len(board)}
            = {sub[i].participant : i \in 1..Len(sub)}
       /\ \A k, m \in 1..Len(board) :
            board[k].participant = board[m].participant => k = m
       /\ \A k \in 1..(Len(board) - 1) :
            board[k].cum_score >= board[k + 1].cum_score
       /\ sub = <<>> => board = <<>>

\* A leaderboard of two participants with different cumulative scores, the
\* one that comes later in the text order of the names ranked first.
C7_Witness ==
  /\ result # <<>>
  /\ Len(result[1]) = 2
  /\ result[1][1].cum_score > result[1][2].cum_score
  /\ Rank(result[1][1].participant) > Rank(result[1][2].participant)

\* The sum of the returns of a row over a set of tickers, signed by sgn.
RECURSIVE SignedSum(_, _, _)
SignedSum(r, sgn, T) ==
  IF T = {} THEN 0
  ELSE LET t == CHOOSE x \in T : TRUE
       IN sgn[t] * r.ret[t] + SignedSum(r, sgn, T \ {t})

SignOf(ch) ==
  [t \in StockSet |->
     IF t \in DOMAIN ch /\ ch[t] = "Buy" THEN 1
     ELSE IF t \in DOMAIN ch /\ ch[t] = "Sell" THEN -1
     ELSE 0]

\* C8: the round score is the sum over the five tickers of sign * return,
\* Buy +1, Sell -1, Hold and a missing ticker 0; all Hold scores 0, all Buy
\* the sum of the returns, all Sell the negated sum.
C8_ScoreIsSignedSum ==
  result # <<>> =>
    /\ result[1] = SignedSum(row, SignOf(chosen), StockSet)
    /\ chosen = [t \in StockSet |-> "Hold"] => result[1] = 0
    /\ chosen = [t \in StockSet |-> "Buy"]
         => result[1] = SignedSum(row, [t \in StockSet |-> 1], StockSet)
    /\ chosen = [t \in StockSet |-> "Sell"]
         => result[1] = 0 - SignedSum(row, [t \in StockSet |-> 1], StockSet)

\* A score other than 0 of choices that sell a ticker and leave one out.
C8_Witness ==
  /\ result # <<>>
  /\ result[1] # 0
  /\ DOMAIN chosen # StockSet
  /\ \E t \in DOMAIN chosen : chosen[t] = "Sell" /\ row.ret[t] # 0

C10_ResetPlayerEffect ==
  [][\A s \in Sessions :
       (\E keep \in BOOLEAN : ResetPlayer(s, keep))
       => /\ choices'[s] = EmptyDict
          /\ DOMAIN choices'[s] = {}
          /\ scores'[s] = <<>>
          /\ locked_rounds'[s] = {}
          /\ round_idx'[s] = 0
          /\ participant'[s] = participant[s]]_vars

\* A named session that was reset after its row reached the log.
C10_Witness ==
  \E s \in Sessions :
    /\ was_reset[s]
    /\ participant[s] # ""
    /\ scores[s] = <<>>
    /\ locked_rounds[s] = {}
    /\ \E i \in 1..Len(rows) : rows[i].participant = participant[s]

\* A step of session s that is an explicit reset.
IsReset(s) == (\E keep \in BOOLEAN : ResetPlayer(s, keep)) \/ ResetAll(s)

\* C11: a reset of a session (the reset of the current player, or the full
\* reset) leaves the records of the log as they are and leaves the session
\* with empty choices and scores; entering a name afterwards changes
\* neither the log nor the session's choices and scores.  Stated from the
\* effect: a step that changes the log is neither a reset nor a change of
\* a name, a step that leaves a session with a choice or a score is not a
\* reset of it, and a step that enters a name leaves the session's choices
\* and scores as they are.
C11_ResetKeepsLog ==
  [][\A s \in Sessions :
       /\ (rows' # rows \/ fileExists' # fileExists
             \/ load_submissions' # load_submissions)
          => (~IsReset(s) /\ participant'[s] = participant[s])
       /\ (choices'[s] # EmptyDict \/ scores'[s] # <<>>) => ~IsReset(s)
       /\ (participant'[s] # participant[s] /\ participant'[s] # "")
          => (choices'[s] = choices[s] /\ scores'[s] = scores[s])]_vars

\* A session that was reset and has a name entered again, with empty
\* choices and scores, while the log still holds a record under that name.
C11_Witness ==
  \E s \in Sessions :
    /\ was_reset[s]
    /\ was_renamed[s]
    /\ pc[s] = "idle"
    /\ choices[s] = EmptyDict
    /\ scores[s] = <<>>
    /\ \E i \in 1..Len(load_submissions) :
         load_submissions[i].participant = participant[s]

\* C12: in every reachable state the round pointer of every session is an
\* index of a config row, 0 <= round_idx <= RoundCount - 1: neither an
\* advance at the last round nor a retreat at round 0 moves it.
C12_RoundIndexInRange ==
  \A s \in Sessions :
    /\ 0 <= round_idx[s]
    /\ round_idx[s] <= RoundCount - 1
    /\ round_idx[s] + 1 \in DOMAIN cfg

\* A session that has advanced to the last round and locked it (a further
\* advance would leave the range), while the other session is at round 0.
C12_Witness ==
  \E s \in Sessions :
    /\ round_idx[s] = RoundCount - 1
    /\ round_idx[s] > 0
    /\ Locked(s)
    /\ pc[s] = "idle"
    /\ \E o \in Sessions \ {s} : round_idx[o] = 0

\* C13: the round pointer of a session goes up only by an advance, by
\* exactly 1, from a round that is locked and is not the last one; an
\* advance changes nothing else of the session.  A session whose pointer is
\* on an unanswered round therefore cannot advance, and by submitting and
\* advancing in turn it reaches the state with every round locked
\* (C13_Witness).
C13_AdvanceByOneFromLocked ==
  [][\A s \in Sessions :
       /\ round_idx'[s] > round_idx[s]
          => /\ Advance(s)
             /\ round_idx'[s] = round_idx[s] + 1
             /\ round_idx[s] \in locked_rounds[s]
             /\ round_idx[s] < RoundCount - 1
       /\ Advance(s)
          => /\ round_idx'[s] = round_idx[s] + 1
             /\ locked_rounds'[s] = locked_rounds[s]
             /\ choices'[s] = choices[s]
             /\ scores'[s] = scores[s]]_vars

\* The terminal state: a session that was never reset has locked all
\* RoundCount rounds, one after the other.
C13_Witness ==
  \E s \in Sessions :
    /\ ~was_reset[s]
    /\ pc[s] = "idle"
    /\ locked_rounds[s] = 0..(RoundCount - 1)
    /\ score_rounds[s] = [i \in 1..RoundCount |-> i - 1]
    /\ round_idx[s] = RoundCount - 1

\* C14: in every step of a session that is not a reset, every locked round
\* stays locked with the choices recorded for it, and the scores recorded
\* so far stay as they are, each for the round it was recorded for: a step
\* after which one of these is no longer so is a reset of the session.
C14_LockedStaysLocked ==
  [][\A s \in Sessions :
       ( /\ locked_rounds[s] \subseteq locked_rounds'[s]
         /\ \A r \in locked_rounds[s] :
              /\ r \in DOMAIN choices[s]
              /\ r \in DOMAIN choices'[s]
              /\ choices'[s][r] = choices[s][r]
         /\ Len(scores'[s]) >= Len(scores[s])
         /\ \A i \in 1..Len(scores[s]) :
              /\ scores'[s][i] = scores[s][i]
              /\ score_rounds'[s][i] = score_rounds[s][i] )
       \/ IsReset(s)]_vars

\* A session that was never reset locked round 0 with Buy CEN, advanced and
\* locked round 1, and the log has been cleared since: both rounds are
\* locked with their choices and scores.
C14_Witness ==
  \E s \in Sessions :
    /\ ~was_reset[s]
    /\ was_cleared
    /\ ~fileExists
    /\ pc[s] = "idle"
    /\ locked_rounds[s] = {0, 1}
    /\ choices[s][0]["CEN"] = "Buy"
    /\ scores[s][1] = 2
    /\ Len(scores[s]) = 2

\* Records a and b are the same submission.
SameSubmission(a, b) ==
  /\ a.timestamp = b.timestamp
  /\ a.participant = b.participant
  /\ a.round = b.round
  /\ a.choice = b.choice
  /\ a.round_score = b.round_score

\* C15: the rewrite of an append puts into the file the records its own
\* read found and its own record behind them, whatever the file holds at
\* the time of the rewrite: a record another session wrote between the read
\* and the rewrite is not in the file afterwards.  With two sessions of
\* different participants whose reads and rewrites interleave, the state of
\* C15_Witness is reached: a round locked with its score in a session while
\* the log holds no record of it.
C15_RewriteFromOwnRead ==
  [][\A s \in Sessions :
       (pc[s] = "write" /\ pc'[s] = "idle")
       => /\ Len(rows') = Len(df[s])
          /\ \A i \in 1..Len(df[s]) : SameSubmission(rows'[i], df[s][i])
          /\ SameSubmission(rows'[Len(rows')], data[s])
          /\ \A i \in 1..Len(rows) :
               (\A j \in 1..Len(df[s]) : ~SameSubmission(rows[i], df[s][j]))
               => \A j \in 1..Len(rows') : ~SameSubmission(rows[i], rows'[j])]_vars

\* Two sessions of different participants, neither reset nor renamed, the
\* log never cleared: both have round 0 locked with a score and both
\* appends are finished, and the log holds a record of one of them and none
\* of the other.
C15_Witness ==
  \E s \in Sessions, o \in Sessions :
    /\ participant[s] # "" /\ participant[o] # ""
    /\ participant[s] # participant[o]
    /\ ~was_cleared
    /\ interleaved
    /\ ~was_reset[s] /\ ~was_reset[o]
    /\ ~was_renamed[s] /\ ~was_renamed[o]
    /\ pc[s] = "idle" /\ pc[o] = "idle"
    /\ 0 \in locked_rounds[s] /\ Len(scores[s]) = 1
    /\ 0 \in locked_rounds[o] /\ Len(scores[o]) = 1
    /\ \A i \in 1..Len(load_submissions) :
         load_submissions[i].participant # participant[s]
    /\ \E i \in 1..Len(load_submissions) :
         load_submissions[i].participant = participant[o]

\* C16: an append whose read finds no file it can read goes on with the new
\* record alone, and its rewrite leaves a file of exactly that record, with
\* cum_score_after equal to its round_score; the session has the score
\* recorded and the round locked.
C16_AppendToMissingLog ==
  /\ [][\A s \in Sessions :
          (pc[s] = "read" /\ pc'[s] = "write" /\ ~fileExists)
          => df'[s] = <<data[s]>>]_vars
  /\ [][\A s \in Sessions :
          (pc[s] = "write" /\ pc'[s] = "idle" /\ Len(df[s]) <= 1)
          => /\ fileExists'
             /\ rows' = <<MkRow(data[s], data[s].round_score)>>
             /\ rows'[1].cum_score_after = rows'[1].round_score
             /\ load_submissions' = rows'
             /\ (data[s].round - 1) \in locked_rounds'[s]
             /\ scores'[s] # <<>>
             /\ scores'[s][Len(scores'[s])] = data[s].round_score]_vars

\* The log was deleted, and an append since then has created it again: it
\* holds one record, with score 2 and cumulative score 2, of a session that
\* has the round locked.
C16_Witness ==
  /\ was_cleared
  /\ fileExists
  /\ Len(rows) = 1
  /\ rows[1].round_score = 2
  /\ rows[1].cum_score_after = 2
  /\ \E s \in Sessions :
       /\ pc[s] = "idle"
       /\ participant[s] = rows[1].participant
       /\ 0 \in locked_rounds[s]
       /\ scores[s] = <<2>>

\* C17: the Admin clear leaves a log without records, whose leaderboard is
\* empty, and leaves choices, scores, locked_rounds, round_idx and
\* participant of every session as they were: a round that was locked is
\* still locked, so that a submit of it is still rejected.
C17_ClearKeepsSessions ==
  [][(\E c \in Sessions : ClearLog(c))
     => /\ load_submissions' = <<>>
        /\ compute_leaderboard(load_submissions)' = <<>>
        /\ \A s \in Sessions :
             /\ choices'[s] = choices[s]
             /\ scores'[s] = scores[s]
             /\ locked_rounds'[s] = locked_rounds[s]
             /\ round_idx'[s] = round_idx[s]
             /\ participant'[s] = participant[s]
             /\ Locked(s) => Locked(s)']_vars

\* The log held a record and was cleared; the session the record came from
\* was not reset and has its round locked with its score, and the
\* leaderboard is empty.
C17_Witness ==
  /\ was_cleared
  /\ ~fileExists
  /\ compute_leaderboard(load_submissions) = <<>>
  /\ \E s \in Sessions :
       /\ ~was_reset[s]
       /\ pc[s] = "idle"
       /\ Locked(s)
       /\ Len(scores[s]) = 1
       /\ \A o \in Sessions \ {s} : scores[o] = <<>> /\ pc[o] = "idle"

\* C18: when a session has submitted a round with a selection other than
\* Hold, has been reset, and submits the round again with no selectbox
\* changed since the reset, the second submission records Hold for every
\* ticker and a round score of 0: the selection made before the reset does
\* not reach the submission made after it.
C18_ResubmitRecordsHold ==
  [][\A s \in Sessions :
       ( /\ Submit(s)
         /\ was_reset[s]
         /\ ~touched[s]
         /\ \E i \in 1..Len(load_submissions) :
              /\ load_submissions[i].participant = participant[s]
              /\ load_submissions[i].round = cfg[round_idx[s] + 1].round
              /\ load_submissions[i].choice # AllHold )
       => /\ choices'[s][round_idx[s]] = AllHold
          /\ data'[s].choice = AllHold
          /\ data'[s].round_score = 0]_vars

\* Record rec has the headline and the returns of the config row with its
\* round number, and its score is the signed sum of its own returns under
\* its own choices.
MatchesConfig(rec) ==
  /\ \E k \in 1..Len(cfg) :
       /\ cfg[k].round = rec.round
       /\ cfg[k].headline = rec.headline
       /\ \A t \in StockSet : rec.return[t] = cfg[k].ret[t]
  /\ \A t \in StockSet : rec.choice[t] \in ActionSet
  /\ rec.round_score = SignedSum([ret |-> rec.return], SignOf(rec.choice), StockSet)

\* C19: every record of the log, and every record a pending append holds,
\* carries the headline and the returns of the config row of its round, and
\* a round_score equal to the sum over the tickers of sign(choice) * return
\* of that same record.
C19_RecordsMatchConfig ==
  /\ \A i \in 1..Len(load_submissions) : MatchesConfig(load_submissions[i])
  /\ \A s \in Sessions :
       /\ data[s] # NoData => MatchesConfig(data[s])
       /\ \A i \in 1..Len(df[s]) : MatchesConfig(df[s][i])

\* A log with a Sell CEN record of score -2 and a Buy CEN record of score 2.
C19_Witness ==
  /\ fileExists
  /\ \E i \in 1..Len(rows) :
       rows[i].choice["CEN"] = "Sell" /\ rows[i].round_score = -2
  /\ \E i \in 1..Len(rows) :
       rows[i].choice["CEN"] = "Buy" /\ rows[i].round_score = 2

\* Session s was never reset and never changed its name, no other session
\* has changed its name or has the name of s, the log was never cleared and
\* no rewrite has followed a read the file had left behind.
Undisturbed(s) ==
  /\ participant[s] # ""
  /\ ~was_reset[s]
  /\ ~was_renamed[s]
  /\ ~was_cleared
  /\ ~interleaved
  /\ \A o \in Sessions \ {s} :
       ~was_renamed[o] /\ participant[o] # participant[s]

====
